---- MODULE Spec2Model ----
(***************************************************************************)
(* A model of src/nsga_2/algo.py: Pareto dominance, non-dominated sorting, *)
(* flatten_fronts, crowding distance, tournament selection, SBX crossover, *)
(* polynomial mutation and generate_offspring.                             *)
(*                                                                         *)
(* Individuals are indexed 0..N-1 as in the source; a matrix is a sequence *)
(* of rows, row i of the source being element i+1 of the sequence.  Every  *)
(* function of the source has its own specification (SpecDom, SpecFronts,  *)
(* SpecFlatten, SpecCrowd, SpecSelect, SpecOffspring): Init draws the      *)
(* arguments, the actions run the function.  Variables a specification     *)
(* does not use stay at their idle values.                                 *)
(***************************************************************************)
EXTENDS Integers, Sequences, FiniteSets, TLC

VARIABLES
    pc,                  \* position of the call being modelled
    err,                 \* the exception the call ended with, "none" if none
    i1, i2,              \* pareto_dominance: the two objective vectors
    ret12, ret21,        \* pareto_dominance(i1, i2), pareto_dominance(i2, i1)
    p_obj,               \* the N x M objective matrix
    F,                   \* assign_fronts: the returned mapping rank -> set of indices
    fronts,              \* flatten_fronts, tournament_select: the mapping passed in
    order,               \* the order in which fronts.items() yields the keys
    f,                   \* flatten_fronts: the returned array
    crowding_distances,  \* calculate_crowding_distance's result, tournament_select's argument
    selected_i,          \* tournament_select: the two indices drawn
    winner_abs_i,        \* tournament_select: the index returned
    p,                   \* generate_offspring: the N x D population passed in
    mating_pool,         \* generate_offspring: the mating pool
    Q,                   \* generate_offspring: the children so far
    pair_i,              \* generate_offspring: the index i of the breeding loop
    n_select,            \* the number of calls of tournament_select made
    untouched,           \* the last pair bred had no crossover and no mutation
    offspring            \* generate_offspring: the population returned

selVars == <<selected_i, winner_abs_i>>
genVars == <<p, mating_pool, Q, pair_i, n_select, untouched, offspring>>
vars == <<pc, err, i1, i2, ret12, ret21, p_obj, F, fronts, order, f,
          crowding_distances, selVars, genVars>>

(***************************************************************************)
(* Bounds of the model.                                                    *)
(***************************************************************************)
MaxN == 4
MaxM == 2
MaxVal == 1
MaxCells == 8
DomMaxM == 3
FlatMaxN == 3
MaxKey == 3
CrowdMaxVal == 2
SelMaxN == 3
PopMaxN == 4
Grid == 2

\* program constants
D == 1
Lower == 0
Upper == 1

Vals == 0..MaxVal
Vectors(m) == [1..m -> Vals]
Matrices(n, m) == [1..n -> Vectors(m)]

\* the objective matrices the specifications draw from: N x M, N*M <= MaxCells
ObjectiveMatrices ==
    UNION {Matrices(s[1], s[2]) :
           s \in {t \in (0..MaxN) \X (1..MaxM) : t[1] * t[2] <= MaxCells}}

Idx(obj) == 0..(Len(obj) - 1)
Row(obj, i) == obj[i + 1]

None == <<>>

(***************************************************************************)
(* numpy helpers                                                           *)
(***************************************************************************)
RECURSIVE np_all(_)
np_all(bs) ==
    IF bs = <<>> THEN TRUE ELSE Head(bs) /\ np_all(Tail(bs))

RECURSIVE np_any(_)
np_any(bs) ==
    IF bs = <<>> THEN FALSE ELSE Head(bs) \/ np_any(Tail(bs))

LessEqual(a, b) == [j \in DOMAIN a |-> a[j] <= b[j]]
Less(a, b) == [j \in DOMAIN a |-> a[j] < b[j]]

(***************************************************************************)
(* pareto_dominance                                                        *)
(***************************************************************************)
\* line 64 without the strict part
pareto_dominance_nonstrict(a, b) ==
    np_all(LessEqual(a, b))

\* line 64
pareto_dominance(a, b) ==
    np_all(LessEqual(a, b)) /\ np_any(Less(a, b))

(***************************************************************************)
(* assign_fronts                                                           *)
(***************************************************************************)
\* lines 91-104: S[p], the indices p dominates
DominatesSet(obj, p_idx) ==
    {q_idx \in Idx(obj) \ {p_idx} :
        pareto_dominance(Row(obj, p_idx), Row(obj, q_idx))}

\* lines 91-104: n[p], counted in the elif branch only
DominatedCount(obj, p_idx) ==
    Cardinality({q_idx \in Idx(obj) \ {p_idx} :
        /\ ~pareto_dominance(Row(obj, p_idx), Row(obj, q_idx))
        /\ pareto_dominance(Row(obj, q_idx), Row(obj, p_idx))})

\* lines 116-117: the order a set of small integers is iterated in
RECURSIVE SetToSeq(_)
SetToSeq(s) ==
    IF s = {} THEN <<>>
    ELSE LET x == CHOOSE y \in s : \A z \in s : y <= z
         IN <<x>> \o SetToSeq(s \ {x})

\* lines 118-121 for one q: the state is [n |-> counters, Q |-> next front]
\* ... with q joining the next front at its first decrement
RelaxEager(st, q) ==
    [n |-> [st.n EXCEPT ![q] = @ - 1], Q |-> st.Q \cup {q}]

\* ... with the counter tested before it is decremented
RelaxTestFirst(st, q) ==
    [n |-> [st.n EXCEPT ![q] = @ - 1],
     Q |-> IF st.n[q] = 0 THEN st.Q \cup {q} ELSE st.Q]

Relax(st, q) ==
    LET n2 == [st.n EXCEPT ![q] = @ - 1]
    IN [n |-> n2, Q |-> IF n2[q] = 0 THEN st.Q \cup {q} ELSE st.Q]

\* lines 117-121: for q in S[p]
RECURSIVE RelaxAll(_, _)
RelaxAll(st, qs) ==
    IF qs = <<>> THEN st ELSE RelaxAll(Relax(st, Head(qs)), Tail(qs))

\* lines 116-121: for p in F[i]
RECURSIVE VisitFront(_, _, _)
VisitFront(obj, st, ps) ==
    IF ps = <<>> THEN st
    ELSE VisitFront(obj,
                    RelaxAll(st, SetToSeq(DominatesSet(obj, Head(ps)))),
                    Tail(ps))

\* lines 110-127: the while loop
RECURSIVE PopulateFronts(_, _, _, _)
PopulateFronts(obj, fr, n, i) ==
    IF fr[i] = {} THEN fr
    ELSE LET st == VisitFront(obj, [n |-> n, Q |-> {}], SetToSeq(fr[i]))
         IN IF st.Q = {} THEN fr
            ELSE PopulateFronts(obj, fr @@ ((i + 1) :> st.Q), st.n, i + 1)

\* lines 82-127: the mapping before the assertion
BuildFronts(obj) ==
    LET n == [p_idx \in Idx(obj) |-> DominatedCount(obj, p_idx)]
        F1 == {p_idx \in Idx(obj) : n[p_idx] = 0}
    IN PopulateFronts(obj, 1 :> F1, n, 1)

Members(fr) == UNION {fr[k] : k \in DOMAIN fr}

\* line 130
CoverageAssertion(obj, fr) == Len(obj) = Cardinality(Members(fr))

(***************************************************************************)
(* flatten_fronts                                                          *)
(***************************************************************************)
\* line 153
np_zeros(n) == [i \in 0..(n - 1) |-> 0]

\* line 155 with front numbers counted from 0
AssignMembersShifted(arr, members, front) ==
    [i \in DOMAIN arr |-> IF i \in members THEN front - 1 ELSE arr[i]]

\* line 155: f[list(members)] = front
AssignMembers(arr, members, front) ==
    [i \in DOMAIN arr |-> IF i \in members THEN front ELSE arr[i]]

\* lines 154-155: the loop over fronts.items(), keys in the order ks
RECURSIVE FlattenLoop(_, _, _)
FlattenLoop(arr, fr, ks) ==
    IF ks = <<>> THEN arr
    ELSE FlattenLoop(AssignMembers(arr, fr[Head(ks)], Head(ks)), fr, Tail(ks))

flatten_fronts(obj, fr, ks) == FlattenLoop(np_zeros(Len(obj)), fr, ks)

\* the orders a mapping with keys K can be iterated in
KeyOrders(K) ==
    {s \in [1..Cardinality(K) -> K] : \A a, b \in DOMAIN s : a # b => s[a] # s[b]}

\* all mappings from keys within 1..MaxKey to sets of row indices of obj
FrontMappings(obj) ==
    UNION {[K -> SUBSET Idx(obj)] : K \in SUBSET (1..MaxKey)}

\* a matrix of n rows; flatten_fronts reads its shape only
ZeroMatrix(n) == [i \in 1..n |-> <<0>>]

(***************************************************************************)
(* calculate_crowding_distance                                             *)
(*                                                                         *)
(* A float is [k |-> "fin", v |-> x * Scale], [k |-> "inf"], [k |-> "ninf"]*)
(* or [k |-> "nan"]; Scale is a common multiple of every non-zero range, so *)
(* every quotient the loop forms is a whole number of 1/Scale.             *)
(***************************************************************************)
RECURSIVE Gcd(_, _)
Gcd(a, b) == IF b = 0 THEN a ELSE Gcd(b, a % b)

RECURSIVE LcmUpTo(_)
LcmUpTo(n) ==
    IF n <= 1 THEN 1 ELSE LET l == LcmUpTo(n - 1) IN (l * n) \div Gcd(l, n)

Scale == LcmUpTo(CrowdMaxVal)

Fin(x) == [k |-> "fin", v |-> x]
Inf == [k |-> "inf", v |-> 0]
NegInf == [k |-> "ninf", v |-> 0]
NaN == [k |-> "nan", v |-> 0]

\* float addition
FloatAdd(x, y) ==
    CASE x.k = "nan" \/ y.k = "nan" -> NaN
      [] x.k = "inf" -> IF y.k = "ninf" THEN NaN ELSE Inf
      [] x.k = "ninf" -> IF y.k = "inf" THEN NaN ELSE NegInf
      [] y.k # "fin" -> y
      [] OTHER -> Fin(x.v + y.v)

\* line 191: numpy's true division of two scalars
TrueDivide(a, b) ==
    IF b # 0 THEN Fin((a * Scale) \div b)
    ELSE IF a = 0 THEN NaN ELSE IF a > 0 THEN Inf ELSE NegInf

Column(obj, m) == [i \in Idx(obj) |-> Row(obj, i)[m]]

Max(S) == CHOOSE x \in S : \A y \in S : y <= x
Min(S) == CHOOSE x \in S : \A y \in S : x <= y
Range(fn) == {fn[x] : x \in DOMAIN fn}

\* line 180: np.argsort with the default kind is not stable; every index order
\* that sorts the values is a possible result (0-based positions)
Argsorts(m_values) ==
    LET n == Cardinality(DOMAIN m_values)
    IN {s \in [0..(n - 1) -> DOMAIN m_values] :
           /\ \A a, b \in 0..(n - 1) : a # b => s[a] # s[b]
           /\ \A a, b \in 0..(n - 1) : a < b => m_values[s[a]] <= m_values[s[b]]}

\* lines 187-192: the in-between points, from position i on
RECURSIVE UpdateInBetween(_, _, _, _, _)
UpdateInBetween(cd, m_values, m_range, sorted, i) ==
    IF i > Cardinality(DOMAIN sorted) - 2 THEN cd
    ELSE LET prev_i == sorted[i - 1]
             next_i == sorted[i + 1]
             increment == TrueDivide(m_values[next_i] - m_values[prev_i], m_range)
         IN UpdateInBetween([cd EXCEPT ![sorted[i]] = FloatAdd(@, increment)],
                            m_values, m_range, sorted, i + 1)

\* lines 176-192: one objective, sorted being what argsort returned
CrowdObjective(cd, m_values, sorted) ==
    LET n == Cardinality(DOMAIN sorted)
        m_range == Max(Range(m_values)) - Min(Range(m_values))
        boundary_indices == {sorted[0], sorted[n - 1]}
        cd1 == [i \in DOMAIN cd |-> IF i \in boundary_indices THEN Inf ELSE cd[i]]
    IN UpdateInBetween(cd1, m_values, m_range, sorted, 1)

\* lines 175-192: the loop over the objectives m..M, sorts[m] being the
\* result of argsort for objective m
RECURSIVE CrowdLoop(_, _, _, _)
CrowdLoop(cd, obj, sorts, m) ==
    IF m > Len(sorts) THEN cd
    ELSE CrowdLoop(CrowdObjective(cd, Column(obj, m), sorts[m]), obj, sorts, m + 1)

calculate_crowding_distance(obj, sorts) ==
    CrowdLoop([i \in Idx(obj) |-> Fin(0)], obj, sorts, 1)

NumObjectives(obj) == Len(obj[1])

\* one argsort result per objective
ArgsortChoices(obj) ==
    {s \in [1..NumObjectives(obj) -> UNION {Argsorts(Column(obj, m)) : m \in 1..NumObjectives(obj)}] :
        \A m \in 1..NumObjectives(obj) : s[m] \in Argsorts(Column(obj, m))}

CrowdMatrices ==
    UNION {[1..n -> [1..m -> 0..CrowdMaxVal]] : n \in 1..MaxN, m \in 1..MaxM}

(***************************************************************************)
(* tournament_select                                                       *)
(***************************************************************************)
\* unary minus on a float
FloatNeg(x) ==
    CASE x.k = "fin" -> Fin(0 - x.v)
      [] x.k = "inf" -> NegInf
      [] x.k = "ninf" -> Inf
      [] OTHER -> NaN

\* the order numpy sorts floats by: NaN after everything else
FloatSortsBefore(x, y) ==
    CASE x.k = "nan" -> FALSE
      [] y.k = "nan" -> TRUE
      [] x.k = "ninf" -> y.k # "ninf"
      [] x.k = "inf" -> FALSE
      [] y.k = "ninf" -> FALSE
      [] y.k = "inf" -> TRUE
      [] OTHER -> x.v < y.v

\* a stable sort of the two positions in perm by their keys
StableSort2(keys, perm) ==
    IF FloatSortsBefore(keys[perm[2]], keys[perm[1]])
    THEN <<perm[2], perm[1]>> ELSE perm

\* line 226 with the keys exchanged
lexsort_swapped(cd_keys, front_keys) ==
    StableSort2(cd_keys, StableSort2(front_keys, <<1, 2>>))

\* line 226: np.lexsort((cd_keys, front_keys)), the last key is the primary
lexsort(cd_keys, front_keys) ==
    StableSort2(front_keys, StableSort2(cd_keys, <<1, 2>>))

\* lines 219-229, for the draw sel = <<a, b>> of line 222
tournament_select(obj, fr, ks, cd, sel) ==
    LET flat == flatten_fronts(obj, fr, ks)
        front_keys == [r \in 1..2 |-> Fin(flat[sel[r]])]
        cd_keys == [r \in 1..2 |-> FloatNeg(cd[sel[r]])]
        winner_rel_i == lexsort(cd_keys, front_keys)[1]
    IN sel[winner_rel_i]

\* line 222: np.random.choice(N, 2, replace=False)
Draws(n) == {s \in (0..(n - 1)) \X (0..(n - 1)) : s[1] # s[2]}

\* the mappings assign_fronts can return for n rows: every index has a rank
RankedFronts(n) ==
    {[k \in {r[i] : i \in 0..(n - 1)} |-> {i \in 0..(n - 1) : r[i] = k}] :
        r \in [0..(n - 1) -> 1..MaxKey]}

\* the distances the specifications draw from
DistanceValues == {Fin(0), Fin(Scale), Inf, NaN}

(***************************************************************************)
(* sbx_crossover, polynomial_mutation                                      *)
(*                                                                         *)
(* A decision variable x is held as the integer x * XScale.  The spread     *)
(* factor beta of line 254 is a continuous increasing function of the       *)
(* uniform draw u in [0, 1): it covers [0, 1] for u <= 0.5 and every value  *)
(* above 1 for u > 0.5; the model draws beta = k / Grid directly.  The      *)
(* perturbation delta of line 287 covers [-1, 0) for u < 0.5 and [0, 1) for *)
(* u >= 0.5; the model draws delta = d / Grid.                              *)
(***************************************************************************)
XScale == 2 * Grid

\* beta below and above 1
BetaNums == {Grid - 1, Grid + 1}
\* delta: the largest step down, a small step down, a small step up
DeltaNums == {0 - Grid, 0 - 1, 1}

ToGrid(x) == [j \in DOMAIN x |-> x[j] * XScale]

\* lines 258-259, ks[j] / Grid being beta for variable j
sbx_crossover(p1, p2, ks) ==
    <<[j \in DOMAIN p1 |-> ((Grid + ks[j]) * p1[j] + (Grid - ks[j]) * p2[j]) \div (2 * Grid)],
      [j \in DOMAIN p1 |-> ((Grid - ks[j]) * p1[j] + (Grid + ks[j]) * p2[j]) \div (2 * Grid)]>>

\* np.clip
np_clip(x, lo, hi) == IF x < lo THEN lo ELSE IF x > hi THEN hi ELSE x

\* lines 290-291, ds[j] / Grid being delta for variable j
polynomial_mutation(x, ds) ==
    [j \in DOMAIN x |->
        np_clip(x[j] + ((ds[j] * XScale) \div Grid) * (Upper - Lower),
                Lower * XScale, Upper * XScale)]

(***************************************************************************)
(* generate_offspring                                                      *)
(***************************************************************************)
\* lines 344-345 with p2 = mating_pool[i]
PoolPairSame(pool, k) ==
    <<pool[k + 1], pool[k + 1]>>

\* lines 344-345 with a missing partner replaced by the parent itself
PoolPairPadded(pool, k) ==
    IF k + 1 < Len(pool) THEN <<pool[k + 1], pool[k + 2]>>
    ELSE <<pool[k + 1], pool[k + 1]>>

\* lines 344-345: mating_pool[i], mating_pool[i + 1]; None is the IndexError
PoolPair(pool, k) ==
    IF k + 1 < Len(pool) THEN <<pool[k + 1], pool[k + 2]>> ELSE None

\* lines 348-351: cx is the crossover roll, ks the spread factors
Crossover(parents, cx, ks) ==
    IF cx THEN sbx_crossover(parents[1], parents[2], ks) ELSE parents

\* lines 354-357 for one child: mu is the mutation roll, ds the perturbations
Mutate(c, mu, ds) ==
    IF mu THEN polynomial_mutation(c, ds) ELSE c

Populations(n) == [1..n -> [1..D -> Lower..Upper]]

\* front assignments for n rows: one front, or one front per individual.
\* With one front and equal distances the first index drawn wins, so every
\* index can win and every mating pool over the population is reached.
OffspringFronts(n) ==
    {1 :> (0..(n - 1)), [k \in 1..n |-> {k - 1}]}

DomIdle == i1 = None /\ i2 = None /\ ret12 = FALSE /\ ret21 = FALSE
FrontsIdle == p_obj = None /\ F = None
FlattenIdle == fronts = None /\ order = None /\ f = None
CrowdIdle == crowding_distances = None
SelectIdle == selected_i = None /\ winner_abs_i = None
OffspringIdle ==
    /\ p = None /\ mating_pool = None /\ Q = None /\ pair_i = 0
    /\ n_select = 0 /\ untouched = FALSE /\ offspring = None

(***************************************************************************)
(* SpecDom: pareto_dominance on two vectors of equal length                *)
(***************************************************************************)
InitDom ==
    /\ pc = "start"
    /\ err = "none"
    /\ \E m \in 0..DomMaxM : i1 \in Vectors(m) /\ i2 \in Vectors(m)
    /\ ret12 = FALSE /\ ret21 = FALSE
    /\ FrontsIdle
    /\ FlattenIdle
    /\ CrowdIdle
    /\ SelectIdle
    /\ OffspringIdle

CallDominance ==
    /\ pc = "start"
    /\ ret12' = pareto_dominance(i1, i2)
    /\ ret21' = pareto_dominance(i2, i1)
    /\ pc' = "returned"
    /\ UNCHANGED <<err, i1, i2, p_obj, F, fronts, order, f, crowding_distances,
                   selVars, genVars>>

NextDom == CallDominance

SpecDom == InitDom /\ [][NextDom]_vars

(***************************************************************************)
(* SpecFronts: assign_fronts on an N x M matrix                            *)
(***************************************************************************)
InitFronts ==
    /\ pc = "start"
    /\ err = "none"
    /\ p_obj \in ObjectiveMatrices
    /\ F = None
    /\ DomIdle
    /\ FlattenIdle
    /\ CrowdIdle
    /\ SelectIdle
    /\ OffspringIdle

AssignFronts ==
    /\ pc = "start"
    /\ LET fr == BuildFronts(p_obj)
       IN IF CoverageAssertion(p_obj, fr)
          THEN pc' = "returned" /\ F' = fr /\ err' = err
          ELSE pc' = "raised" /\ F' = F /\ err' = "AssertionError"
    /\ UNCHANGED <<i1, i2, ret12, ret21, p_obj, fronts, order, f, crowding_distances,
                   selVars, genVars>>

NextFronts == AssignFronts

SpecFronts == InitFronts /\ [][NextFronts]_vars

(***************************************************************************)
(* SpecFlatten: flatten_fronts on a mapping over the rows of p_obj         *)
(***************************************************************************)
InitFlatten ==
    /\ pc = "start"
    /\ err = "none"
    /\ \E n \in 0..FlatMaxN : p_obj = ZeroMatrix(n)
    /\ fronts \in FrontMappings(p_obj)
    /\ order \in KeyOrders(DOMAIN fronts)
    /\ f = None
    /\ F = None
    /\ DomIdle
    /\ CrowdIdle
    /\ SelectIdle
    /\ OffspringIdle

FlattenFronts ==
    /\ pc = "start"
    /\ f' = flatten_fronts(p_obj, fronts, order)
    /\ pc' = "returned"
    /\ UNCHANGED <<err, i1, i2, ret12, ret21, p_obj, F, fronts, order,
                   crowding_distances, selVars, genVars>>

NextFlatten == FlattenFronts

SpecFlatten == InitFlatten /\ [][NextFlatten]_vars

(***************************************************************************)
(* SpecCrowd: calculate_crowding_distance on an N x M matrix, N >= 1       *)
(***************************************************************************)
InitCrowd ==
    /\ pc = "start"
    /\ err = "none"
    /\ p_obj \in CrowdMatrices
    /\ crowding_distances = None
    /\ F = None
    /\ DomIdle
    /\ FlattenIdle
    /\ SelectIdle
    /\ OffspringIdle

CalculateCrowdingDistance ==
    /\ pc = "start"
    /\ \E sorts \in ArgsortChoices(p_obj) :
           crowding_distances' = calculate_crowding_distance(p_obj, sorts)
    /\ pc' = "returned"
    /\ UNCHANGED <<err, i1, i2, ret12, ret21, p_obj, F, fronts, order, f,
                   selVars, genVars>>

NextCrowd == CalculateCrowdingDistance

SpecCrowd == InitCrowd /\ [][NextCrowd]_vars

(***************************************************************************)
(* SpecSelect: tournament_select on N >= 1 individuals                     *)
(***************************************************************************)
InitSelect ==
    /\ pc = "start"
    /\ err = "none"
    /\ \E n \in 1..SelMaxN :
        /\ p_obj = ZeroMatrix(n)
        /\ fronts \in RankedFronts(n)
        /\ crowding_distances \in [0..(n - 1) -> DistanceValues]
    /\ order = SetToSeq(DOMAIN fronts)
    /\ f = None
    /\ F = None
    /\ DomIdle
    /\ SelectIdle
    /\ OffspringIdle

TournamentSelect ==
    /\ pc = "start"
    /\ Len(p_obj) >= 2
    /\ \E sel \in Draws(Len(p_obj)) :
        /\ selected_i' = sel
        /\ winner_abs_i' =
               tournament_select(p_obj, fronts, order, crowding_distances, sel)
    /\ pc' = "returned"
    /\ UNCHANGED <<err, i1, i2, ret12, ret21, p_obj, F, fronts, order, f,
                   crowding_distances, genVars>>

\* line 222 with N < 2: np.random.choice raises ValueError
TournamentSelectTooFew ==
    /\ pc = "start"
    /\ Len(p_obj) < 2
    /\ pc' = "raised"
    /\ err' = "ValueError"
    /\ UNCHANGED <<i1, i2, ret12, ret21, p_obj, F, fronts, order, f,
                   crowding_distances, selVars, genVars>>

NextSelect == TournamentSelect \/ TournamentSelectTooFew

SpecSelect == InitSelect /\ [][NextSelect]_vars

(***************************************************************************)
(* SpecOffspring: generate_offspring on a population of N individuals      *)
(***************************************************************************)
InitOffspring ==
    /\ pc = "select"
    /\ err = "none"
    /\ \E n \in 0..PopMaxN :
        /\ p \in Populations(n)
        /\ p_obj = ZeroMatrix(n)
        /\ fronts \in OffspringFronts(n)
        /\ crowding_distances = [k \in 0..(n - 1) |-> Inf]
    /\ order = SetToSeq(DOMAIN fronts)
    /\ mating_pool = <<>>
    /\ Q = <<>>
    /\ pair_i = 0
    /\ n_select = 0
    /\ untouched = FALSE
    /\ offspring = None
    /\ f = None
    /\ F = None
    /\ DomIdle
    /\ SelectIdle

idleVars == <<i1, i2, ret12, ret21, p_obj, F, fronts, order, f,
              crowding_distances, selVars, p>>

\* lines 332-336: one turn of the while loop
Select ==
    /\ pc = "select"
    /\ Len(mating_pool) < Len(p)
    /\ Len(p_obj) >= 2
    /\ \E sel \in Draws(Len(p_obj)) :
           LET winner_i ==
                   tournament_select(p_obj, fronts, order, crowding_distances, sel)
           IN mating_pool' = Append(mating_pool, p[winner_i + 1])
    /\ n_select' = n_select + 1
    /\ UNCHANGED <<pc, err, Q, pair_i, untouched, offspring, idleVars>>

\* line 335 with N = 1: the draw of line 222 raises ValueError
SelectTooFew ==
    /\ pc = "select"
    /\ Len(mating_pool) < Len(p)
    /\ Len(p_obj) < 2
    /\ n_select' = n_select + 1
    /\ pc' = "raised"
    /\ err' = "ValueError"
    /\ UNCHANGED <<mating_pool, Q, pair_i, untouched, offspring, idleVars>>

\* lines 332, 338-342: the pool is full, the assertion holds, breeding starts
PoolFilled ==
    /\ pc = "select"
    /\ Len(mating_pool) >= Len(p)
    /\ pc' = "breed"
    /\ UNCHANGED <<err, mating_pool, Q, pair_i, n_select, untouched, offspring, idleVars>>

\* lines 342-359: one turn of the for loop
Breed ==
    /\ pc = "breed"
    /\ pair_i < Len(p)
    /\ PoolPair(mating_pool, pair_i) # None
    /\ \E cx \in BOOLEAN, mu1 \in BOOLEAN, mu2 \in BOOLEAN,
          ks \in [1..D -> BetaNums], ds1 \in [1..D -> DeltaNums],
          ds2 \in [1..D -> DeltaNums] :
           LET parents == PoolPair(mating_pool, pair_i)
               children == Crossover(<<ToGrid(parents[1]), ToGrid(parents[2])>>, cx, ks)
           IN /\ Q' = Q \o <<Mutate(children[1], mu1, ds1),
                               Mutate(children[2], mu2, ds2)>>
              /\ untouched' = (~cx /\ ~mu1 /\ ~mu2)
    /\ pair_i' = pair_i + 2
    /\ UNCHANGED <<pc, err, mating_pool, n_select, offspring, idleVars>>

\* line 345: mating_pool[pair_i + 1] is out of range
BreedIndexError ==
    /\ pc = "breed"
    /\ pair_i < Len(p)
    /\ PoolPair(mating_pool, pair_i) = None
    /\ pc' = "raised"
    /\ err' = "IndexError"
    /\ UNCHANGED <<mating_pool, Q, pair_i, n_select, untouched, offspring, idleVars>>

\* line 361
ReturnOffspring ==
    /\ pc = "breed"
    /\ pair_i >= Len(p)
    /\ offspring' = Q
    /\ pc' = "returned"
    /\ UNCHANGED <<err, mating_pool, Q, pair_i, n_select, untouched, idleVars>>

NextOffspring ==
    \/ Select
    \/ SelectTooFew
    \/ PoolFilled
    \/ Breed
    \/ BreedIndexError
    \/ ReturnOffspring

SpecOffspring == InitOffspring /\ [][NextOffspring]_vars

(***************************************************************************)
(* Claims                                                                  *)
(***************************************************************************)
\* a dominates b: no worse in every objective, strictly better in one
Dominates(a, b) ==
    /\ \A j \in DOMAIN a : a[j] <= b[j]
    /\ \E j \in DOMAIN a : a[j] < b[j]

\* C3: pareto_dominance(a, b) is true iff a is no worse than b in every
\* objective and strictly better in at least one; it is false both ways for
\* equal vectors and never true in both directions.
C3_DominanceContract ==
    pc = "returned" =>
        /\ ret12 = Dominates(i1, i2)
        /\ ret21 = Dominates(i2, i1)
        /\ (i1 = i2 => ~ret12 /\ ~ret21)
        /\ ~(ret12 /\ ret21)

C3_Witness ==
    /\ pc = "returned"
    /\ Len(i1) = DomMaxM
    /\ ret12 /\ ~ret21
    /\ \E j \in DOMAIN i1 : i1[j] = i2[j]

FrontOf(fr, i) == {k \in DOMAIN fr : i \in fr[k]}

\* C1: for N >= 1 assign_fronts returns without tripping its coverage
\* assertion and the mapping is a partition of 0..N-1: every index is in
\* exactly one front, the keys are 1..K without gaps, no front is empty.
C1_FrontsPartition ==
    Len(p_obj) >= 1 =>
        /\ pc # "raised"
        /\ pc = "returned" =>
            /\ \A i \in Idx(p_obj) : Cardinality(FrontOf(F, i)) = 1
            /\ Members(F) = Idx(p_obj)
            /\ DOMAIN F = 1..Cardinality(DOMAIN F)
            /\ \A k \in DOMAIN F : F[k] # {}

C1_Witness ==
    /\ pc = "returned"
    /\ Len(p_obj) = MaxN
    /\ Cardinality(DOMAIN F) >= 2
    /\ \E i, j \in Idx(p_obj) : i # j /\ Row(p_obj, i) = Row(p_obj, j)

\* C2: an individual of front 1 is dominated by nobody, an individual of
\* front k only by individuals of fronts of smaller rank; no two members of
\* one front dominate one another.
C2_FrontsRespectDominance ==
    pc = "returned" =>
        \A k \in DOMAIN F : \A i \in F[k] : \A j \in Idx(p_obj) :
            Dominates(Row(p_obj, j), Row(p_obj, i)) =>
                \E k2 \in DOMAIN F : k2 < k /\ j \in F[k2]

C2_Witness ==
    /\ pc = "returned"
    /\ Cardinality(DOMAIN F) >= 3
    /\ \E i \in F[3], j \in F[2] : Dominates(Row(p_obj, j), Row(p_obj, i))
    /\ \E i, j \in F[2] : i # j


\* the mapping fr partitions the row indices of obj
IsPartition(obj, fr) ==
    /\ Members(fr) = Idx(obj)
    /\ \A k1, k2 \in DOMAIN fr : k1 # k2 => fr[k1] \cap fr[k2] = {}

\* C9: for a mapping that partitions the row indices, flatten_fronts returns a
\* length-N array whose entry i is the key of the front containing i, whatever
\* the order the keys are iterated in; an empty population and an empty
\* mapping give an empty array.
C9_FlattenByMembership ==
    pc = "returned" /\ IsPartition(p_obj, fronts) =>
        /\ DOMAIN f = Idx(p_obj)
        /\ \A i \in Idx(p_obj) : f[i] \in DOMAIN fronts /\ i \in fronts[f[i]]
        /\ (Len(p_obj) = 0 /\ DOMAIN fronts = {} => f = <<>>)

C9_Witness ==
    /\ pc = "returned"
    /\ IsPartition(p_obj, fronts)
    /\ Len(p_obj) = FlatMaxN
    /\ Cardinality(DOMAIN fronts) >= 2
    /\ \E a, b \in DOMAIN order : a < b /\ order[a] > order[b]
    /\ \E k \in DOMAIN fronts : Cardinality(fronts[k]) >= 2

C9_WitnessEmpty ==
    pc = "returned" /\ Len(p_obj) = 0 /\ DOMAIN fronts = {} /\ f = <<>>

IsColumnExtreme(obj, i) ==
    \E m \in 1..NumObjectives(obj) :
        \/ Row(obj, i)[m] = Min(Range(Column(obj, m)))
        \/ Row(obj, i)[m] = Max(Range(Column(obj, m)))

\* C4: for N >= 2 every individual whose value is the minimum or the maximum
\* of some objective column has crowding distance +infinity in the returned
\* array, whatever the other columns contain.
C4_ExtremesInfinite ==
    pc = "returned" /\ Len(p_obj) >= 2 =>
        \A i \in Idx(p_obj) :
            IsColumnExtreme(p_obj, i) => crowding_distances[i] = Inf

\* individual i alone holds the minimum or the maximum of some column
IsUniqueColumnExtreme(obj, i) ==
    \E m \in 1..NumObjectives(obj) :
        LET col == Column(obj, m)
        IN /\ col[i] \in {Min(Range(col)), Max(Range(col))}
           /\ \A j \in Idx(obj) \ {i} : col[j] # col[i]

\* the reading of C4 without ties: an individual that alone holds the
\* minimum or the maximum of a column has distance +infinity
C4_UniqueExtremesInfinite ==
    pc = "returned" /\ Len(p_obj) >= 2 =>
        \A i \in Idx(p_obj) :
            IsUniqueColumnExtreme(p_obj, i) => crowding_distances[i] = Inf

\* C5: every entry of the returned array is a non-negative real or
\* +infinity, also when an objective column has zero range.
C5_DistancesDefined ==
    pc = "returned" =>
        \A i \in Idx(p_obj) :
            \/ crowding_distances[i] = Inf
            \/ crowding_distances[i].k = "fin" /\ crowding_distances[i].v >= 0

\* the rank of individual i in the mapping fr
RankOf(fr, i) == CHOOSE k \in DOMAIN fr : i \in fr[k]

\* x < y on the extended reals; NaN compares with nothing
StrictlySmaller(x, y) ==
    /\ x.k # "nan" /\ y.k # "nan"
    /\ \/ x.k = "ninf" /\ y.k # "ninf"
       \/ x.k = "fin" /\ y.k = "inf"
       \/ x.k = "fin" /\ y.k = "fin" /\ x.v < y.v

\* C6: for N >= 2 and a partitioning front assignment, tournament_select
\* draws two distinct indices of 0..N-1 and returns one of them: the one of
\* lower rank whatever the crowding distances, and among equal ranks never
\* the one with the strictly smaller crowding distance.
C6_TournamentLexicographic ==
    pc = "returned" /\ Len(p_obj) >= 2 /\ IsPartition(p_obj, fronts) =>
        LET a == selected_i[1]
            b == selected_i[2]
            w == winner_abs_i
            l == IF w = a THEN b ELSE a
        IN /\ a # b
           /\ {a, b} \subseteq Idx(p_obj)
           /\ w \in {a, b}
           /\ RankOf(fronts, w) <= RankOf(fronts, l)
           /\ RankOf(fronts, w) = RankOf(fronts, l) =>
                  ~StrictlySmaller(crowding_distances[w], crowding_distances[l])

C6_Witness ==
    /\ pc = "returned"
    /\ Len(p_obj) = SelMaxN
    /\ IsPartition(p_obj, fronts)
    /\ winner_abs_i = selected_i[2]
    /\ RankOf(fronts, selected_i[2]) < RankOf(fronts, selected_i[1])
    /\ crowding_distances[selected_i[1]] = Inf
    /\ crowding_distances[selected_i[2]] = Fin(0)

InBounds(x) == \A j \in DOMAIN x : Lower * XScale <= x[j] /\ x[j] <= Upper * XScale

\* C7: if every decision variable of the input population lies in
\* [lower, upper], so does every decision variable of the population
\* generate_offspring returns, whatever the rolls and the spread factors.
C7_OffspringInBounds ==
    pc = "returned" /\ (\A r \in DOMAIN p : InBounds(ToGrid(p[r]))) =>
        \A r \in DOMAIN offspring : InBounds(offspring[r])

\* C8: for an even N >= 2 generate_offspring makes exactly N selections to
\* fill a pool of exactly N entries, breeds the consecutive pool pairs, two
\* children per pair, and returns N individuals of dimension D; a pair with
\* no crossover and no mutation contributes its two parents unchanged.
C8_EvenPopulationBred ==
    Len(p) >= 2 /\ Len(p) % 2 = 0 =>
        /\ pc # "raised"
        /\ n_select = Len(mating_pool) /\ n_select <= Len(p)
        /\ pc \in {"breed", "returned"} =>
            /\ n_select = Len(p)
            /\ Len(Q) = pair_i
            /\ \A r \in DOMAIN Q : Len(Q[r]) = D
            /\ pair_i > 0 /\ untouched =>
                   /\ Q[pair_i - 1] = ToGrid(mating_pool[pair_i - 1])
                   /\ Q[pair_i] = ToGrid(mating_pool[pair_i])
        /\ pc = "returned" =>
            /\ pair_i = Len(p)
            /\ offspring = Q
            /\ Len(offspring) = Len(p)

C8_Witness ==
    /\ pc = "returned"
    /\ Len(p) = PopMaxN - (PopMaxN % 2)
    /\ untouched
    /\ mating_pool[Len(p) - 1] # mating_pool[Len(p)]
    /\ offspring[1] # ToGrid(mating_pool[1])

\* C10: for an odd N generate_offspring either ends with an error and
\* returns no population or returns exactly N individuals; it never pairs a
\* parent with an entry outside the mating pool.
C10_OddPopulationDefined ==
    Len(p) % 2 = 1 =>
        /\ pc = "raised" => offspring = None
        /\ pc = "returned" => Len(offspring) = Len(p)
        /\ offspring # None => pc = "returned"
        /\ pair_i <= Len(mating_pool) /\ Len(Q) <= Len(mating_pool)

C10_Witness ==
    /\ pc = "raised"
    /\ err = "IndexError"
    /\ Len(p) >= 3 /\ Len(p) % 2 = 1
    /\ Len(Q) = Len(p) - 1
    /\ offspring = None
====
